---- MODULE Spec2Model ----
(***************************************************************************)
(* A model of xenRAG: the LangGraph pipeline of src/xenrag/graph (one run  *)
(* of the compiled StateGraph over a GraphState), the LLM load balancer   *)
(* of src/xenrag/llm/load_balancer.py, RagEngine._merge_results as a       *)
(* function of any two result lists, RagEngine.search with its two        *)
(* sub-searches as separate steps, validate_topic and input_guardrail_node *)
(* as functions of a query text, and print_result of src/cli.py.           *)
(*                                                                         *)
(* Scores and confidences are integers: a score is in tenths (10 = 1.0), a *)
(* confidence in hundredths (80 = 0.8).  Free text (prompts, answers,      *)
(* summaries) is modelled by the template that produced it.                *)
(***************************************************************************)
EXTENDS Integers, Sequences, FiniteSets, TLC

VARIABLES
    pc,         \* pipeline: the node the graph runs next, "END", or "raised"
    state,      \* pipeline: the GraphState channels
    trace,      \* pipeline: the nodes that have returned a patch, in order
    extFail,    \* pipeline: the nodes in which an external call failed
    llmCalls,   \* pipeline: node -> number of LLM calls it made
    llmReplies, \* pipeline: what the LLM calls of the node that ran last came back with
    llmBackends,\* pipeline: for each of those calls, which backends would have answered
    searched,   \* pipeline: the RagEngine.search call of the run, None before it
    mergeCall,  \* merge: one _merge_results call, its arguments and its result
    searchCall, \* search: one RagEngine.search call and its two sub-searches
    topicCall,  \* topic: one validate_topic call, its arguments and its result
    guardCall,  \* guardrail: one input_guardrail_node call, its state and its patch
    explainCall,\* explanation: one explanation_node call, its state and its patch
    clients,    \* balancer: the registry, a sequence of BaseLLM records
    strategy,   \* balancer: LoadBalancer.strategy
    rr_index,   \* balancer: LoadBalancer._rr_index
    calls,      \* balancer: caller -> the frame of its execute() call
    started,    \* balancer: number of execute() calls begun
    lastOutcome \* balancer: backend -> whether its invocation that completed last returned

vars == <<pc, state, trace, extFail, llmCalls, llmReplies, llmBackends, searched,
          mergeCall, searchCall, topicCall, guardCall, explainCall,
          clients, strategy, rr_index, calls, started, lastOutcome>>
pipeVars == <<pc, state, trace, extFail, llmCalls, llmReplies, llmBackends, searched>>
mergeVars == <<mergeCall>>
searchVars == <<searchCall>>
topicVars == <<topicCall>>
guardVars == <<guardCall>>
explainVars == <<explainCall>>
\* the calls of the functions that are checked on their own
fnVars == <<mergeVars, searchVars, topicVars, guardVars, explainVars>>
lbVars == <<clients, strategy, rr_index, calls, started, lastOutcome>>

----------------------------------------------------------------------------
(* Bounds of the model *)

MaxVec == 2
MaxKg == 2
MaxBackends == 2
MaxRetries == 1
MaxExec == 2
MaxWords == 2
MaxHist == 2
MaxItems == 6

----------------------------------------------------------------------------
(* Optional values and sequence helpers *)

None == <<>>
Some(x) == <<x>>
IsSet(o) == o # <<>>
Get(o) == o[1]

Min(a, b) == IF a <= b THEN a ELSE b

Range(s) == {s[i] : i \in 1..Len(s)}

IsPrefix(s, t) == Len(s) <= Len(t) /\ \A i \in 1..Len(s) : s[i] = t[i]

Take(s, n) == [i \in 1..Min(n, Len(s)) |-> s[i]]

RECURSIVE SelectIdx(_, _, _)
\* the indices i of 1..n (ascending) for which keep[i]
SelectIdx(keep, i, n) ==
    IF i > n THEN <<>>
    ELSE (IF keep[i] THEN <<i>> ELSE <<>>) \o SelectIdx(keep, i + 1, n)

----------------------------------------------------------------------------
(* GraphState: channels, defaults and the merge of a node's patch *)

Channels == {"input_query", "messages", "intent", "emotion", "retrieval_context",
             "is_sufficient", "needs_clarification", "generated_answer",
             "explanations", "private_reasoning"}

\* channels declared Annotated[..., operator.add]; every other one keeps the last value
AddChannels == {"messages"}

GraphState(q) ==
    [input_query |-> q, messages |-> <<>>, intent |-> None, emotion |-> None,
     retrieval_context |-> None, is_sufficient |-> FALSE,
     needs_clarification |-> FALSE, generated_answer |-> None,
     explanations |-> <<>>, private_reasoning |-> <<>>]

\* the reducer of channel k applied to the old value and the patch's value
Reduce(k, old, new) == IF k \in AddChannels THEN old \o new ELSE new

ApplyPatch_resets(s, p) ==
    [k \in Channels |-> IF k \in DOMAIN p THEN Reduce(k, s[k], p[k])
                        ELSE GraphState(s.input_query)[k]]

\* the state after a node returned patch p: keys that are no channel are dropped
ApplyPatch(s, p) ==
    [k \in Channels |-> IF k \in DOMAIN p THEN Reduce(k, s[k], p[k]) ELSE s[k]]

\* result.get(k) on the final state dict
StateGet(s, k) == IF k \in DOMAIN s THEN Some(s[k]) ELSE None

ReasoningRecord(step, summary, confidence) ==
    [step |-> step, summary |-> summary, confidence |-> confidence]

ValidConfidence_any(c) == TRUE

\* pydantic Field(ge=0.0, le=1.0)
ValidConfidence(c) == c >= 0 /\ c <= 100

----------------------------------------------------------------------------
(* The query and the guardrail validators' verdicts on it *)

\* a query, by what the validators' patterns find in it
Queries == [risk : {"none", "jailbreak", "toxic"}, off_topic : BOOLEAN]

\* validate_input(query).is_safe: no jailbreak and no toxic pattern matches
validate_input(q) == [is_safe |-> q.risk = "none", risk_type |-> q.risk]

\* validate_topic(query).is_on_topic, without conversation context
validate_topic(q) == [is_on_topic |-> ~q.off_topic]

----------------------------------------------------------------------------
(* The graph: nodes, edges and the one routing function *)

Nodes == {"interpreter", "query", "reasoner", "generate_answer",
          "ask_clarification", "build_explanation"}

should_generate_or_clarify_always(s) == "generate_answer"

should_generate_or_clarify_inverted(s) ==
    IF s.is_sufficient THEN "ask_clarification" ELSE "generate_answer"

should_generate_or_clarify(s) ==
    IF s.is_sufficient THEN "generate_answer" ELSE "ask_clarification"

EdgeFrom_clarify_explains(node, s) ==
    CASE node = "START" -> "interpreter"
      [] node = "interpreter" -> "query"
      [] node = "query" -> "reasoner"
      [] node = "reasoner" -> should_generate_or_clarify(s)
      [] node = "generate_answer" -> "build_explanation"
      [] node = "build_explanation" -> "END"
      [] node = "ask_clarification" -> "build_explanation"

\* build_graph's edges: the node that runs after `node` returned, s the merged state
EdgeFrom(node, s) ==
    CASE node = "START" -> "interpreter"
      [] node = "interpreter" -> "query"
      [] node = "query" -> "reasoner"
      [] node = "reasoner" -> should_generate_or_clarify(s)
      [] node = "generate_answer" -> "build_explanation"
      [] node = "build_explanation" -> "END"
      [] node = "ask_clarification" -> "END"

\* one super-step: the node returned patch p after n LLM calls; failed tells
\* whether one of its external calls failed
NodeReturns(node, p, n, failed) ==
    /\ state' = ApplyPatch(state, p)
    /\ pc' = EdgeFrom(node, ApplyPatch(state, p))
    /\ trace' = Append(trace, node)
    /\ extFail' = IF failed THEN extFail \cup {node} ELSE extFail
    /\ llmCalls' = [llmCalls EXCEPT ![node] = @ + n]
    /\ UNCHANGED <<lbVars, fnVars>>

\* an exception left the node: ainvoke raises, no patch is merged
NodeRaises(node) ==
    /\ pc' = "raised"
    /\ extFail' = extFail \cup {node}
    /\ UNCHANGED <<state, trace, llmCalls, llmReplies, llmBackends, searched>>
    /\ UNCHANGED <<lbVars, fnVars>>

----------------------------------------------------------------------------
(* The LLM backends as the nodes reach them *)

\* for one LLM call: whether a request to Ollama, and one to Gemini, would be
\* answered at that moment; Gemini comes second in the registry, so whether it
\* would answer is drawn only for a call that Ollama fails
Backends == {b \in [ollama : BOOLEAN, gemini : BOOLEAN] : b.ollama => b.gemini}

\* a node that builds its own ChatOllama(base_url=OLLAMA_URL) reaches Ollama only
DirectCallFails(b) == ~b.ollama

\* get_managed_llm(): LLMManager.generate runs LoadBalancer.execute with the
\* default retries = 2 over the registry <<ollama, gemini>>, so both are tried
ManagedCallFails(b) == ~b.ollama /\ ~b.gemini

----------------------------------------------------------------------------
(* interpreter_node *)

IntentTypes == {"specific_question", "feature_request", "complaint_analysis",
                "summary_request", "why_explanation"}
EmotionTypes == {"neutral", "frustrated"}
\* confidence values an LLM may write; 150 is out of range
LLMConfidences == {40, 90, 150}

\* what the ChatOllama call of the interpreter comes back with
InterpreterReplies ==
    [kind : {"error", "nojson"}]
    \cup [kind : {"json"}, intent : IntentTypes, intent_conf : LLMConfidences,
          emotion : EmotionTypes, emotion_conf : LLMConfidences]

interpreter_fallback ==
    [intent |-> Some([type |-> "unknown", confidence |-> 0]),
     emotion |-> Some([type |-> "neutral", confidence |-> 0]),
     private_reasoning |-> <<ReasoningRecord("interpreter", "Failed to classify. Error", 0)>>]

interpreter_patch(s, reply) ==
    IF reply.kind = "json" /\ ValidConfidence(reply.intent_conf)
                           /\ ValidConfidence(reply.emotion_conf)
    THEN [intent |-> Some([type |-> reply.intent, confidence |-> reply.intent_conf]),
          emotion |-> Some([type |-> reply.emotion, confidence |-> reply.emotion_conf]),
          private_reasoning |->
              <<ReasoningRecord("interpreter", "Classified intent and emotion",
                                Min(reply.intent_conf, reply.emotion_conf))>>]
    ELSE interpreter_fallback

interpreter_node ==
    /\ pc = "interpreter"
    /\ \E reply \in InterpreterReplies, b \in Backends :
          /\ (reply.kind = "error") <=> DirectCallFails(b)
          /\ NodeReturns("interpreter", interpreter_patch(state, reply), 1,
                         reply.kind = "error")
          /\ llmReplies' = <<reply>>
          /\ llmBackends' = <<b>>
          /\ UNCHANGED searched

----------------------------------------------------------------------------
(* RagEngine: the two stores, search and the merge *)

\* relevance scores Qdrant may report, in tenths
VecScores == {6, 9, 10}
\* Neo4jGraphStore.query gives every record this id and this score
Neo4jItemId == "neo4j_res"
Neo4jItemScore == 10

RetrievalItem(id, source, score) == [id |-> id, source |-> source, score |-> score]

QdrantIds == <<"q1", "q2", "q3", "q4", "q5", "q6", "q7", "q8">>

\* the hit lists Qdrant may return: best first, at most MaxVec hits
QdrantHitLists ==
    {h \in UNION {[1..n -> VecScores] : n \in 0..MaxVec} :
        \A i \in 1..(Len(h) - 1) : h[i] >= h[i + 1]}

\* QdrantVectorStore.search: the hits as items, [] when the query failed
QdrantSearch(out) ==
    IF out.failed THEN <<>>
    ELSE [i \in 1..Len(out.hits) |-> RetrievalItem(QdrantIds[i], "qdrant", out.hits[i])]

\* Neo4jGraphStore.get_context: one item per record, [] when the query failed
Neo4jGetContext(out) ==
    IF out.failed THEN <<>>
    ELSE [i \in 1..out.records |-> RetrievalItem(Neo4jItemId, "neo4j", Neo4jItemScore)]

VecOutcomes == [failed : {TRUE}] \cup [failed : {FALSE}, hits : QdrantHitLists]
KgOutcomes == [failed : {TRUE}] \cup [failed : {FALSE}, records : 0..MaxKg]

RECURSIVE InsertByScore(_, _)
\* x put into the score-descending list after every item whose score is >= its own
InsertByScore(sorted, x) ==
    IF sorted = <<>> THEN <<x>>
    ELSE IF sorted[1].score >= x.score
         THEN <<sorted[1]>> \o InsertByScore(Tail(sorted), x)
         ELSE <<x>> \o sorted

RECURSIVE StableSortDesc(_, _)
\* list.sort(key=score, reverse=True) of items[1..n]: stable, highest score first
StableSortDesc(items, n) ==
    IF n = 0 THEN <<>>
    ELSE InsertByScore(StableSortDesc(items, n - 1), items[n])

_merge_results_unsorted(vector_hits, graph_hits) == vector_hits \o graph_hits

_merge_results_graph_first(vector_hits, graph_hits) ==
    StableSortDesc(graph_hits \o vector_hits, Len(vector_hits) + Len(graph_hits))

_merge_results_dedup(vector_hits, graph_hits) ==
    LET sorted == StableSortDesc(vector_hits \o graph_hits,
                                 Len(vector_hits) + Len(graph_hits))
        idx == SelectIdx([i \in 1..Len(sorted) |->
                            \A j \in 1..(i - 1) : sorted[j].id # sorted[i].id],
                         1, Len(sorted))
    IN [j \in 1..Len(idx) |-> sorted[idx[j]]]

\* combined = vector_hits + graph_hits; combined.sort(key=score, reverse=True)
_merge_results(vector_hits, graph_hits) ==
    StableSortDesc(vector_hits \o graph_hits, Len(vector_hits) + Len(graph_hits))

\* RagEngine.search: the response for the stores' outcomes
search(strat, vecOut, kgOut) ==
    LET vector_results == QdrantSearch(vecOut)
        graph_results == IF strat = "HYBRID" THEN Neo4jGetContext(kgOut) ELSE <<>>
        merged == _merge_results(vector_results, graph_results)
    IN [items |-> merged, total_found |-> Len(merged), strategy_used |-> strat,
        debug_info |-> [vector_count |-> Len(vector_results),
                        graph_count |-> Len(graph_results)]]

----------------------------------------------------------------------------
(* query_node *)

RetrievalConfidence == 80

SelectStrategy_always_hybrid(intent) == "HYBRID"

\* the strategy query_node picks for the state's intent
SelectStrategy(intent) ==
    IF IsSet(intent) /\ Get(intent).type \in {"specific_question", "feature_request"}
    THEN "VECTOR_ONLY"
    ELSE "HYBRID"

FilterSource(items, src) ==
    LET keep == [i \in 1..Len(items) |-> items[i].source = src]
        idx == SelectIdx(keep, 1, Len(items))
    IN [j \in 1..Len(idx) |-> items[idx[j]]]

query_patch_ok_absent(response) ==
    [retrieval_context |-> None,
     private_reasoning |->
        <<ReasoningRecord("Query", "Strategy chosen. Found items", 100)>>]

query_patch_ok(response) ==
    [retrieval_context |->
        Some([vector_results |-> FilterSource(response.items, "qdrant"),
              kg_results |-> FilterSource(response.items, "neo4j"),
              merged_results |-> response.items,
              retrieval_confidence |-> RetrievalConfidence]),
     private_reasoning |->
        <<ReasoningRecord("Query", "Strategy chosen. Found items", 100)>>]

query_patch_failed ==
    [retrieval_context |-> None,
     private_reasoning |-> <<ReasoningRecord("Query", "Retrieval failed", 0)>>]

\* RagEngine() is built before the try block: QdrantVectorStore() and
\* Neo4jGraphStore() connect and re-raise when the store is unreachable
query_node_connect_fails ==
    /\ pc = "query"
    /\ \E qdrantUp, neo4jUp \in BOOLEAN :
          /\ ~(qdrantUp /\ neo4jUp)
          /\ NodeRaises("query")

\* both stores connected; inside the try block the search runs and its items are
\* converted (the conversion fails on an item whose content is no string)
query_node_searches ==
    /\ pc = "query"
    /\ \E vecOut \in VecOutcomes, kgOut \in KgOutcomes, badItem \in BOOLEAN :
          LET strat == SelectStrategy(state.intent)
              response == search(strat, vecOut, kgOut)
              storeFailed == vecOut.failed \/ (strat = "HYBRID" /\ kgOut.failed)
          IN /\ strat = "VECTOR_ONLY" => kgOut = [failed |-> FALSE, records |-> 0]
             /\ badItem => response.items # <<>>
             /\ NodeReturns("query",
                            IF badItem THEN query_patch_failed
                            ELSE query_patch_ok(response),
                            0, storeFailed \/ badItem)
             /\ llmReplies' = <<>>
             /\ llmBackends' = <<>>
             /\ searched' = Some([strategy |-> strat, vecOut |-> vecOut, kgOut |-> kgOut,
                                  response |-> response])

----------------------------------------------------------------------------
(* reasoning_node *)

MergedOf(s) ==
    IF IsSet(s.retrieval_context) THEN Get(s.retrieval_context).merged_results ELSE <<>>

\* `not context or not context.merged_results`
NoContext_never(s) == FALSE

NoContext(s) == ~IsSet(s.retrieval_context) \/ MergedOf(s) = <<>>

\* what the managed LLM call of the reasoner comes back with: the call failed,
\* the text is no JSON of the verdict's shape, or a verdict
ReasonerReplies ==
    [kind : {"error", "unparseable"}, says_missing : BOOLEAN]
    \cup [kind : {"verdict"}, is_sufficient : BOOLEAN, confidence : LLMConfidences]

reasoner_patch_no_documents_quiet ==
    [is_sufficient |-> FALSE, needs_clarification |-> FALSE,
     private_reasoning |->
        <<ReasoningRecord("Reasoner", "No documents retrieved. Cannot evaluate sufficiency.", 100)>>]

reasoner_patch_no_documents ==
    [is_sufficient |-> FALSE, needs_clarification |-> TRUE,
     private_reasoning |->
        <<ReasoningRecord("Reasoner", "No documents retrieved. Cannot evaluate sufficiency.", 100)>>]

reasoner_patch_fail_open(reply) ==
    IF reply.kind = "verdict"
    THEN [is_sufficient |-> reply.is_sufficient,
          needs_clarification |-> ~reply.is_sufficient,
          private_reasoning |->
             <<ReasoningRecord("Reasoner", "reasoning", Min(reply.confidence, 100))>>]
    ELSE [is_sufficient |-> TRUE, needs_clarification |-> FALSE,
          private_reasoning |->
             <<ReasoningRecord("Reasoner", "Error during evaluation", 0)>>]

\* the try block of reasoning_node and its except branch
reasoner_patch(reply) ==
    IF reply.kind = "verdict" /\ ValidConfidence(reply.confidence)
    THEN [is_sufficient |-> reply.is_sufficient,
          needs_clarification |-> ~reply.is_sufficient,
          private_reasoning |->
             <<ReasoningRecord("Reasoner",
                               IF reply.is_sufficient THEN "reasoning"
                               ELSE "reasoning. Missing: missing_information",
                               reply.confidence)>>]
    ELSE [is_sufficient |-> FALSE, needs_clarification |-> TRUE,
          private_reasoning |->
             <<ReasoningRecord("Reasoner",
                               IF reply.kind # "verdict" /\ reply.says_missing
                               THEN "Error during evaluation: missing"
                               ELSE "Error during evaluation",
                               0)>>]

reasoning_node ==
    /\ pc = "reasoner"
    /\ IF NoContext(state)
       THEN /\ NodeReturns("reasoner", reasoner_patch_no_documents, 0, FALSE)
            /\ llmReplies' = <<>>
            /\ llmBackends' = <<>>
       ELSE \E reply \in ReasonerReplies, b \in Backends :
               /\ (reply.kind = "error") <=> ManagedCallFails(b)
               /\ NodeReturns("reasoner", reasoner_patch(reply), 1, reply.kind = "error")
               /\ llmReplies' = <<reply>>
               /\ llmBackends' = <<b>>
    /\ UNCHANGED searched

----------------------------------------------------------------------------
(* generate_answer_node *)

\* what one ChatOllama call for the answer comes back with; "empty" is text that
\* strips to the empty string
AnswerReplies == {"error", "text", "empty"}

\* bool(answer): a generated answer that is set and not the empty string
Truthy(answer) == IsSet(answer) /\ Get(answer).kind # "empty"

generate_answer_patch_no_count(s, first, second) ==
    IF first # "error"
    THEN [generated_answer |-> Some([kind |-> first, docs |-> 0]),
          private_reasoning |->
             <<ReasoningRecord("GenerateAnswer", "Generated response using tone", 100)>>]
    ELSE [generated_answer |-> Some([kind |-> IF second # "error" THEN second ELSE "degraded",
                                     docs |-> 0]),
          private_reasoning |->
             <<ReasoningRecord("GenerateAnswer", "Used fallback simple generation.", 70)>>]

\* the patch for the replies of the normal prompt and of the simple prompt
generate_answer_patch(s, first, second) ==
    IF first # "error"
    THEN [generated_answer |-> Some([kind |-> first, docs |-> 0]),
          private_reasoning |->
             <<ReasoningRecord("GenerateAnswer", "Generated response using tone", 100)>>]
    ELSE IF second # "error"
    THEN [generated_answer |-> Some([kind |-> second, docs |-> 0]),
          private_reasoning |->
             <<ReasoningRecord("GenerateAnswer", "Used fallback simple generation.", 70)>>]
    ELSE [generated_answer |-> Some([kind |-> "degraded", docs |-> Len(MergedOf(s))]),
          private_reasoning |->
             <<ReasoningRecord("GenerateAnswer", "Error during generation. Fallback also failed", 0)>>]

generate_answer_node ==
    /\ pc = "generate_answer"
    /\ \E first, second \in AnswerReplies, b1, b2 \in Backends :
          /\ first # "error" => (second = "text" /\ b2 = b1)
          /\ (first = "error") <=> DirectCallFails(b1)
          /\ first = "error" => ((second = "error") <=> DirectCallFails(b2))
          /\ NodeReturns("generate_answer", generate_answer_patch(state, first, second),
                         IF first = "error" THEN 2 ELSE 1, first = "error")
          /\ llmReplies' = IF first = "error" THEN <<first, second>> ELSE <<first>>
          /\ llmBackends' = IF first = "error" THEN <<b1, b2>> ELSE <<b1>>
          /\ UNCHANGED searched

----------------------------------------------------------------------------
(* explanation_node *)

EvidenceLimit_unlimited == MaxItems

EvidenceLimit == 5

ReasoningTypes == {"synthesis", "deduction"}

ExplanationReplies ==
    [kind : {"error", "unparseable"}]
    \cup [kind : {"json"}, reasoning_type : ReasoningTypes, confidence : {70, 150}]

\* `item.id or f"doc_{i}"` for every merged item
SourceIds(s) == [i \in 1..Len(MergedOf(s)) |-> MergedOf(s)[i].id]

Explanation(rtype, ids, conf, limitations) ==
    [reasoning_type |-> rtype, evidence_ids |-> ids, confidence |-> conf,
     limitations |-> limitations]

explanation_patch(s, reply) ==
    LET ids == Take(SourceIds(s), EvidenceLimit)
    IN IF reply.kind = "json" /\ ValidConfidence(reply.confidence)
       THEN [explanations |->
                <<Explanation(reply.reasoning_type, ids, reply.confidence, "limitations")>>,
             private_reasoning |->
                <<ReasoningRecord("BuildExplanation", "Reasoning. Summary. Limitations",
                                  reply.confidence)>>]
       ELSE IF reply.kind = "unparseable"
       THEN [explanations |->
                <<Explanation("synthesis", ids, 70, "Unable to generate detailed explanation.")>>,
             private_reasoning |->
                <<ReasoningRecord("BuildExplanation", "Reasoning. Summary. Limitations", 70)>>]
       ELSE [explanations |->
                <<Explanation("synthesis", ids, 60, "Explanation generated from available context.")>>,
             private_reasoning |->
                <<ReasoningRecord("BuildExplanation", "Generated fallback explanation. Error", 60)>>]

explanation_patch_no_answer ==
    [explanations |-> <<>>,
     private_reasoning |->
        <<ReasoningRecord("BuildExplanation", "No answer available to build explanation.", 0)>>]

explanation_node ==
    /\ pc = "build_explanation"
    /\ IF ~Truthy(state.generated_answer)
       THEN /\ NodeReturns("build_explanation", explanation_patch_no_answer, 0, FALSE)
            /\ llmReplies' = <<>>
            /\ llmBackends' = <<>>
       ELSE \E reply \in ExplanationReplies, b \in Backends :
               /\ (reply.kind = "error") <=> DirectCallFails(b)
               /\ NodeReturns("build_explanation", explanation_patch(state, reply), 1,
                              reply.kind = "error")
               /\ llmReplies' = <<reply>>
               /\ llmBackends' = <<b>>
    /\ UNCHANGED searched

----------------------------------------------------------------------------
(* clarification_node *)

\* 'missing' in summary.lower()
MentionsMissing(summary) ==
    summary \in {"reasoning. Missing: missing_information",
                 "Error during evaluation: missing"}

RECURSIVE LastMentioningMissing(_, _)
\* the summary of the last record of recs[1..n] that mentions 'missing', or None
LastMentioningMissing(recs, n) ==
    IF n = 0 THEN None
    ELSE IF MentionsMissing(recs[n].summary) THEN Some(recs[n].summary)
    ELSE LastMentioningMissing(recs, n - 1)

missing_context(s) ==
    LET found == LastMentioningMissing(s.private_reasoning, Len(s.private_reasoning))
    IN IF IsSet(found) THEN Get(found)
       ELSE "The retrieved information does not contain sufficient details"

ClarificationReplies == {"error", "text", "empty"}

clarification_patch(s, reply) ==
    IF reply # "error"
    THEN [clarification_message |-> [kind |-> reply, docs |-> 0],
          clarification_reason |-> missing_context(s),
          needs_clarification |-> TRUE,
          private_reasoning |->
             <<ReasoningRecord("AskClarification", "Requested clarification due to insufficient evidence", 100)>>]
    ELSE [clarification_message |-> [kind |-> "template", docs |-> Len(MergedOf(s))],
          clarification_reason |-> "Insufficient context to generate accurate response",
          needs_clarification |-> TRUE,
          private_reasoning |->
             <<ReasoningRecord("AskClarification", "Used fallback clarification. Error", 50)>>]

clarification_node ==
    /\ pc = "ask_clarification"
    /\ \E reply \in ClarificationReplies, b \in Backends :
          /\ (reply = "error") <=> DirectCallFails(b)
          /\ NodeReturns("ask_clarification", clarification_patch(state, reply), 1,
                         reply = "error")
          /\ llmReplies' = <<reply>>
          /\ llmBackends' = <<b>>
          /\ UNCHANGED searched

----------------------------------------------------------------------------
(* One run of the compiled graph: app.ainvoke({"input_query": q}) *)

Init ==
    /\ pc = "interpreter"
    /\ \E q \in Queries : state = GraphState(q)
    /\ trace = <<>>
    /\ explainCall = None
    /\ extFail = {}
    /\ llmCalls = [n \in Nodes |-> 0]
    /\ llmReplies = <<>>
    /\ llmBackends = <<>>
    /\ searched = None
    /\ mergeCall = None
    /\ searchCall = None
    /\ topicCall = None
    /\ guardCall = None
    /\ clients = <<>>
    /\ strategy = "failover"
    /\ rr_index = 0
    /\ calls = <<>>
    /\ started = 0
    /\ lastOutcome = <<>>

Next ==
    \/ interpreter_node
    \/ query_node_connect_fails
    \/ query_node_searches
    \/ reasoning_node
    \/ generate_answer_node
    \/ explanation_node
    \/ clarification_node

Spec == Init /\ [][Next]_vars

----------------------------------------------------------------------------
(* _merge_results as a function of any two result lists, and the context     *)
(* query_node builds from the merged list                                    *)

\* ids of the graph items handed to the merge, by position
GraphIds == <<"n1", "n2", "n3", "n4", "n5", "n6">>

\* every list of at most n items of one source, scores in any order
HitLists(ids, source, n) ==
    {[i \in 1..Len(sc) |-> RetrievalItem(ids[i], source, sc[i])] :
        sc \in UNION {[1..k -> VecScores] : k \in 0..n}}

MergeCall(vector_hits, graph_hits) ==
    [vector_hits |-> vector_hits, graph_hits |-> graph_hits,
     merged |-> None, context |-> None]

\* engine.py line 45 and query.py lines 55-63, for the call's two lists
merge_and_convert ==
    /\ IsSet(mergeCall)
    /\ ~IsSet(Get(mergeCall).merged)
    /\ LET c == Get(mergeCall)
           merged == _merge_results(c.vector_hits, c.graph_hits)
           response == [items |-> merged, total_found |-> Len(merged)]
       IN mergeCall' = Some([c EXCEPT !.merged = Some(merged),
                                      !.context = query_patch_ok(response).retrieval_context])
    /\ UNCHANGED <<pipeVars, lbVars, searchVars, topicVars, guardVars, explainVars>>

InitMerge ==
    /\ \E v \in HitLists(QdrantIds, "qdrant", MaxVec),
          g \in HitLists(GraphIds, "neo4j", MaxKg) : mergeCall = Some(MergeCall(v, g))
    /\ pc = "START"
    /\ state = GraphState([risk |-> "none", off_topic |-> FALSE])
    /\ trace = <<>>
    /\ explainCall = None
    /\ extFail = {}
    /\ llmCalls = [n \in Nodes |-> 0]
    /\ llmReplies = <<>>
    /\ llmBackends = <<>>
    /\ searched = None
    /\ searchCall = None
    /\ topicCall = None
    /\ guardCall = None
    /\ clients = <<>>
    /\ strategy = "failover"
    /\ rr_index = 0
    /\ calls = <<>>
    /\ started = 0
    /\ lastOutcome = <<>>

NextMerge == merge_and_convert

SpecMerge == InitMerge /\ [][NextMerge]_vars

----------------------------------------------------------------------------
(* BaseLLM: a backend of the registry *)

BackendNames == <<"ollama", "gemini", "llm3", "llm4", "llm5">>

BaseLLM(name) ==
    [name |-> name, is_healthy |-> TRUE, request_count |-> 0, error_count |-> 0]

mark_healthy_keeps_flag(b) == b

mark_healthy(b) == [b EXCEPT !.is_healthy = TRUE]

mark_unhealthy_count_only(b) == [b EXCEPT !.error_count = @ + 1]

mark_unhealthy(b) == [b EXCEPT !.is_healthy = FALSE, !.error_count = @ + 1]

record_request_overwrites(b) == [b EXCEPT !.request_count = 1]

record_request(b) == [b EXCEPT !.request_count = @ + 1]

\* OllamaClient.generate / GeminiClient.generate, the call went through
generate_ok(b) == mark_healthy(record_request(b))

\* OllamaClient.generate / GeminiClient.generate, the call raised: the client
\* marks itself unhealthy and re-raises
generate_raises(b) == mark_unhealthy(b)

----------------------------------------------------------------------------
(* LoadBalancer *)

Strategies == {"round_robin", "least_connections", "random", "failover"}

get_healthy_clients_ignores_flag(cl) == [i \in 1..Len(cl) |-> i]

get_healthy_clients(cl) ==
    SelectIdx([i \in 1..Len(cl) |-> cl[i].is_healthy], 1, Len(cl))

Candidates_healthy_only(cl) == get_healthy_clients(cl)

\* the list select_client chooses from: the healthy clients, or all when none is
Candidates(cl) ==
    IF get_healthy_clients(cl) = <<>> THEN [i \in 1..Len(cl) |-> i]
    ELSE get_healthy_clients(cl)

\* min(healthy, key=request_count): the first of the least loaded
LeastConnections(cl, cand) ==
    cand[CHOOSE j \in 1..Len(cand) :
            /\ \A k \in 1..Len(cand) : cl[cand[j]].request_count <= cl[cand[k]].request_count
            /\ \A k \in 1..(j - 1) : cl[cand[k]].request_count > cl[cand[j]].request_count]

select_client_failover_last(cl, strat, rr) ==
    LET cand == Candidates(cl)
    IN IF cand = <<>> THEN {0}
       ELSE CASE strat = "round_robin" -> {cand[(rr % Len(cand)) + 1]}
              [] strat = "least_connections" -> {LeastConnections(cl, cand)}
              [] strat = "random" -> Range(cand)
              [] strat = "failover" -> {cand[Len(cand)]}

\* the clients select_client may return (their positions; 0 is None)
select_client(cl, strat, rr) ==
    LET cand == Candidates(cl)
    IN IF cand = <<>> THEN {0}
       ELSE CASE strat = "round_robin" -> {cand[(rr % Len(cand)) + 1]}
              [] strat = "least_connections" -> {LeastConnections(cl, cand)}
              [] strat = "random" -> Range(cand)
              [] strat = "failover" -> {cand[1]}

rr_after_select_stuck(cl, strat, rr) == rr

\* _rr_index after select_client
rr_after_select(cl, strat, rr) ==
    IF strat = "round_robin" /\ Candidates(cl) # <<>> THEN rr + 1 ELSE rr

\* execute: `for attempt in range(retries + 1)`
AttemptBudget_short(retries) == retries

AttemptBudget(retries) == retries + 1

Untried(cl, tried) ==
    SelectIdx([i \in 1..Len(cl) |-> cl[i].name \notin tried], 1, Len(cl))

PickClient_no_skip(sel, tried, cl) == sel

PickClient_gives_up(sel, tried, cl) ==
    IF cl[sel].name \in tried THEN 0 ELSE sel

\* execute: the client to invoke when select_client gave sel; 0 leaves the loop
PickClient(sel, tried, cl) ==
    IF cl[sel].name \in tried
    THEN IF Untried(cl, tried) # <<>> THEN Untried(cl, tried)[1] ELSE 0
    ELSE sel

\* the concurrent callers of execute
Callers == {1, 2}

\* the frame of one execute() call
NewFrame(retries) ==
    [pc |-> "idle", retries |-> retries, attempt |-> 0, tried |-> {}, cur |-> 0,
     inv |-> <<>>, outs |-> <<>>, result |-> 0, error |-> "none"]

\* execute's loop from the top of iteration `attempt` up to the next await (or
\* the raise), with cl the registry and fr the caller's frame at that point
LoopIter(c, attempt, cl, fr) ==
    IF attempt >= AttemptBudget(fr.retries)
    THEN /\ calls' = [calls EXCEPT ![c] =
                        [fr EXCEPT !.pc = "raised", !.cur = 0, !.attempt = attempt,
                                   !.error = "all_failed"]]
         /\ clients' = cl
         /\ rr_index' = rr_index
    ELSE \E sel \in select_client(cl, strategy, rr_index) :
            LET client == IF sel = 0 THEN 0 ELSE PickClient(sel, fr.tried, cl)
            IN /\ rr_index' = rr_after_select(cl, strategy, rr_index)
               /\ clients' = cl
               /\ calls' = [calls EXCEPT ![c] =
                     IF client = 0
                     THEN [fr EXCEPT !.pc = "raised", !.cur = 0, !.attempt = attempt,
                                     !.error = IF sel = 0 THEN "no_clients"
                                               ELSE "all_failed"]
                     ELSE [fr EXCEPT !.pc = "awaiting", !.cur = client,
                                     !.attempt = attempt,
                                     !.tried = @ \cup {cl[client].name},
                                     !.inv = Append(@, client)]]

\* a caller enters execute(prompt, retries)
execute(c) ==
    /\ calls[c].pc # "awaiting"
    /\ started < MaxExec
    /\ started' = started + 1
    /\ \E retries \in 0..MaxRetries : LoopIter(c, 0, clients, NewFrame(retries))
    /\ UNCHANGED <<strategy, lastOutcome, pipeVars, fnVars>>

\* the awaited client.generate returns a response: execute returns (client, response)
generate_returns(c) ==
    /\ calls[c].pc = "awaiting"
    /\ clients' = [clients EXCEPT ![calls[c].cur] = generate_ok(@)]
    /\ calls' = [calls EXCEPT ![c] =
                    [@ EXCEPT !.pc = "returned", !.result = calls[c].cur, !.cur = 0,
                              !.outs = Append(@, TRUE)]]
    /\ lastOutcome' = [lastOutcome EXCEPT ![calls[c].cur] = Some(TRUE)]
    /\ UNCHANGED <<rr_index, strategy, started, pipeVars, fnVars>>

\* the awaited client.generate raises: execute marks the client unhealthy and
\* goes on with the next iteration
generate_fails(c) ==
    /\ calls[c].pc = "awaiting"
    /\ LoopIter(c, calls[c].attempt + 1,
                [clients EXCEPT ![calls[c].cur] = mark_unhealthy(generate_raises(@))],
                [calls[c] EXCEPT !.outs = Append(@, FALSE), !.cur = 0])
    /\ lastOutcome' = [lastOutcome EXCEPT ![calls[c].cur] = Some(FALSE)]
    /\ UNCHANGED <<strategy, started, pipeVars, fnVars>>

InitLB ==
    /\ \E n \in 0..MaxBackends : clients = [i \in 1..n |-> BaseLLM(BackendNames[i])]
    /\ strategy \in Strategies
    /\ rr_index = 0
    /\ calls = [c \in Callers |-> NewFrame(0)]
    /\ started = 0
    /\ lastOutcome = [i \in 1..Len(clients) |-> None]
    /\ pc = "START"
    /\ state = GraphState([risk |-> "none", off_topic |-> FALSE])
    /\ trace = <<>>
    /\ explainCall = None
    /\ extFail = {}
    /\ llmCalls = [n \in Nodes |-> 0]
    /\ llmReplies = <<>>
    /\ llmBackends = <<>>
    /\ searched = None
    /\ mergeCall = None
    /\ searchCall = None
    /\ topicCall = None
    /\ guardCall = None

NextLB ==
    \/ \E c \in Callers : execute(c)
    \/ \E c \in Callers : generate_returns(c)
    \/ \E c \in Callers : generate_fails(c)

SpecLB == InitLB /\ [][NextLB]_vars

----------------------------------------------------------------------------
(* Properties of one pipeline run *)

Terminal == pc \in {"END", "raised"}

Ran(node) == node \in Range(trace)

Injective(s) == \A i, j \in 1..Len(s) : s[i] = s[j] => i = j

\* the three outcomes, read off the final state as the caller reads them
BlockedOutcome == StateGet(state, "is_blocked") = Some(TRUE)

ClarificationOutcome ==
    /\ state.needs_clarification
    /\ IsSet(StateGet(state, "clarification_message"))
    /\ ~IsSet(state.generated_answer)

AnsweredOutcome == IsSet(state.generated_answer) /\ state.explanations # <<>>

\* C1: a run ends in exactly one of blocked, clarification and answered+explained,
\* and never in an uncaught error.
OneTerminalOutcome ==
    Terminal =>
        /\ pc = "END"
        /\ BlockedOutcome \/ ClarificationOutcome \/ AnsweredOutcome
        /\ ~(BlockedOutcome /\ ClarificationOutcome)
        /\ ~(BlockedOutcome /\ AnsweredOutcome)
        /\ ~(ClarificationOutcome /\ AnsweredOutcome)

\* C2: no failure of an external call leaves a stage: every stage in which an
\* LLM or store call failed has returned its patch, and the run is not aborted.
NoFailureEscapes == pc # "raised" /\ \A n \in extFail : Ran(n)

\* C3: a query the input validator finds unsafe or the topic validator finds
\* off-topic ends blocked, and neither Retrieve nor Generate-Answer runs for it.
BlockedShortCircuit ==
    (~validate_input(state.input_query).is_safe
        \/ ~validate_topic(state.input_query).is_on_topic) =>
        /\ ~Ran("query") /\ ~Ran("generate_answer")
        /\ ~IsSet(state.retrieval_context) /\ ~IsSet(state.generated_answer)
        /\ pc = "END" => BlockedOutcome

\* C4: a generated answer implies a retrieval context with a non-empty merged
\* list, and Generate-Answer is never the next stage without one.
AnswerHasEvidence ==
    /\ IsSet(state.generated_answer) => ~NoContext(state)
    /\ pc = "generate_answer" => ~NoContext(state)

AnswerHasEvidenceWitness ==
    pc = "END" /\ IsSet(state.generated_answer) /\ Len(MergedOf(state)) >= 2

\* C5: across every stage transition the reasoning trace held before is a prefix
\* of the trace held after.
ReasoningOnlyGrows ==
    [][IsPrefix(state.private_reasoning, state'.private_reasoning)]_vars

AnswerPath == <<"interpreter", "query", "reasoner", "generate_answer", "build_explanation">>
ClarifyPath == <<"interpreter", "query", "reasoner", "ask_clarification">>

\* C6: the stages run in the fixed order Interpret, Retrieve, Assess, then
\* Generate-Answer and Build-Explanation or Request-Clarification; none runs
\* twice, and at END one of the two orders is complete.
StagesInFixedOrder ==
    /\ IsPrefix(trace, AnswerPath) \/ IsPrefix(trace, ClarifyPath)
    /\ Injective(trace)
    /\ pc \in Nodes => ~Ran(pc)
    /\ pc = "END" => trace \in {AnswerPath, ClarifyPath}

StagesInFixedOrderWitness == pc = "END" /\ trace = AnswerPath

\* C7: after Assess, Generate-Answer runs iff is_sufficient and
\* Request-Clarification iff not; never both; Build-Explanation only after
\* Generate-Answer.
BranchOnSufficiency ==
    /\ (Ran("generate_answer") \/ pc = "generate_answer") => state.is_sufficient
    /\ (Ran("ask_clarification") \/ pc = "ask_clarification") => ~state.is_sufficient
    /\ Ran("reasoner") =>
          /\ state.is_sufficient => (Ran("generate_answer") \/ pc = "generate_answer")
          /\ ~state.is_sufficient => (Ran("ask_clarification") \/ pc = "ask_clarification")
    /\ ~(Ran("generate_answer") /\ Ran("ask_clarification"))
    /\ (Ran("build_explanation") \/ pc = "build_explanation") => Ran("generate_answer")

BranchOnSufficiencyWitness ==
    pc = "END" /\ state.is_sufficient /\ Ran("build_explanation")

----------------------------------------------------------------------------
(* Properties of execute *)

Finished(c) == calls[c].pc \in {"returned", "raised"}

AllFailed(c) ==
    /\ Len(calls[c].outs) = Len(calls[c].inv)
    /\ \A j \in 1..Len(calls[c].outs) : ~calls[c].outs[j]

\* C8: one execute call invokes at most min(retries + 1, N) backends and none
\* of them twice.
AttemptsBounded ==
    \A c \in Callers :
        /\ Len(calls[c].inv) <= Min(calls[c].retries + 1, Len(clients))
        /\ Injective(calls[c].inv)

\* a second call by the same caller that began with no healthy backend: after its
\* first failure select_client gave the tried backend again and execute moved on
AttemptsBoundedWitness ==
    \E c \in Callers :
        /\ Finished(c) /\ started = 2
        /\ \A d \in Callers \ {c} : calls[d].pc = "idle"
        /\ strategy = "failover"
        /\ calls[c].inv = <<1, 2>>
        /\ clients[1].error_count = 4

\* C9, as claimed: execute raises only when every registered backend has been
\* invoked and has failed in that call, after exactly N invocations.
RaisesOnlyAfterEveryBackend ==
    \A c \in Callers :
        calls[c].pc = "raised" =>
            /\ AllFailed(c)
            /\ Len(calls[c].inv) = Len(clients)
            /\ Range(calls[c].inv) = 1..Len(clients)

\* C9, amended: execute raises only when min(retries + 1, N) distinct backends
\* have been invoked and each has failed in that call, after exactly that many
\* invocations.
RaisesAfterBudgetOrEveryBackend ==
    \A c \in Callers :
        calls[c].pc = "raised" =>
            /\ AllFailed(c)
            /\ Len(calls[c].inv) = Min(calls[c].retries + 1, Len(clients))
            /\ Injective(calls[c].inv)

RaisesAfterBudgetWitness ==
    \E c \in Callers :
        /\ calls[c].pc = "raised"
        /\ Len(clients) = 2
        /\ Range(calls[c].inv) = {1, 2}

\* C10: execute returns the first backend that succeeds, with nothing invoked
\* after it, and raises only when every invocation failed and either the attempt
\* budget is spent or no backend is left untried.
FirstSuccessReturned ==
    \A c \in Callers :
        LET n == Len(calls[c].inv)
        IN /\ calls[c].pc = "returned" =>
                /\ n >= 1 /\ Len(calls[c].outs) = n
                /\ calls[c].outs[n]
                /\ \A j \in 1..(n - 1) : ~calls[c].outs[j]
                /\ calls[c].result = calls[c].inv[n]
                /\ calls[c].cur = 0
           /\ (\E j \in 1..Len(calls[c].outs) : calls[c].outs[j]) =>
                calls[c].pc = "returned"
           /\ calls[c].pc = "raised" =>
                /\ AllFailed(c)
                /\ \/ n = calls[c].retries + 1
                   \/ Range(calls[c].inv) = 1..Len(clients)

FirstSuccessReturnedWitness ==
    \E c \in Callers :
        /\ calls[c].pc = "returned"
        /\ calls[c].outs = <<FALSE, TRUE>>

----------------------------------------------------------------------------
(* Properties of the merge *)

ScoresOf(items) == [i \in 1..Len(items) |-> items[i].score]

NonIncreasing(sc) == \A i \in 1..(Len(sc) - 1) : sc[i] >= sc[i + 1]

\* the position of item x in the list m
Pos(m, x) == CHOOSE k \in 1..Len(m) : m[k] = x

\* C11: for any vector and graph result lists, empty ones included, the merged
\* list and the merged_results of the context built from it are sorted by score,
\* non-increasing.
MergedSortedByScore ==
    (IsSet(mergeCall) /\ IsSet(Get(mergeCall).merged)) =>
        /\ NonIncreasing(ScoresOf(Get(Get(mergeCall).merged)))
        /\ NonIncreasing(ScoresOf(Get(Get(mergeCall).context).merged_results))
        /\ Len(Get(Get(mergeCall).merged)) =
              Len(Get(mergeCall).vector_hits) + Len(Get(mergeCall).graph_hits)

\* the concatenation was out of order: a graph item outscores a vector item
MergedSortedByScoreWitness ==
    /\ IsSet(mergeCall) /\ IsSet(Get(mergeCall).merged)
    /\ ScoresOf(Get(mergeCall).vector_hits) = <<6, 9>>
    /\ ScoresOf(Get(mergeCall).graph_hits) = <<10>>
    /\ ScoresOf(Get(Get(mergeCall).context).merged_results) = <<10, 9, 6>>

\* C12: the merged list is the stable descending sort of vector ++ graph: it holds
\* the same items, a higher score comes first, and items of equal score keep the
\* order of the concatenation (vector before graph, one source in its own order);
\* vector [0.9, 0.6] with graph [1.0] gives [graph 1.0, vector 0.9, vector 0.6].
MergeIsStableSort ==
    (IsSet(mergeCall) /\ IsSet(Get(mergeCall).merged)) =>
        LET v == Get(mergeCall).vector_hits
            g == Get(mergeCall).graph_hits
            cat == v \o g
            m == Get(Get(mergeCall).merged)
        IN /\ Len(m) = Len(cat) /\ Range(m) = Range(cat)
           /\ \A i, j \in 1..Len(cat) :
                 i < j =>
                    IF cat[i].score >= cat[j].score
                    THEN Pos(m, cat[i]) < Pos(m, cat[j])
                    ELSE Pos(m, cat[j]) < Pos(m, cat[i])
           /\ (ScoresOf(v) = <<9, 6>> /\ ScoresOf(g) = <<10>>) =>
                 m = <<g[1], v[1], v[2]>>

\* ties inside the vector list and between the two lists
MergeIsStableSortWitness ==
    /\ IsSet(mergeCall) /\ IsSet(Get(mergeCall).merged)
    /\ ScoresOf(Get(mergeCall).vector_hits) = <<9, 9>>
    /\ ScoresOf(Get(mergeCall).graph_hits) = <<9, 10>>
    /\ [i \in 1..4 |-> Get(Get(mergeCall).merged)[i].id] = <<"n2", "q1", "q2", "n1">>

----------------------------------------------------------------------------
(* Properties of retrieval and of Assess on an empty retrieval *)

\* the outcome of the same store had it answered with no items instead of failing
VecAnswered(out) == IF out.failed THEN [failed |-> FALSE, hits |-> <<>>] ELSE out
KgAnswered(out) == IF out.failed THEN [failed |-> FALSE, records |-> 0] ELSE out

ContextOf(s) == Get(s.retrieval_context)

\* C13: under HYBRID with exactly one sub-search failing, search returns the
\* items of the surviving sub-search, the retrieval confidence is lower than the
\* one of a run without the failure, and debug_info tells the failure from a
\* store that answered with no items; stated for a safe, on-topic query and a run
\* in which nothing else failed.
HybridSurvivesOneFailure ==
    (/\ IsSet(searched)
     /\ Get(searched).strategy = "HYBRID"
     /\ Get(searched).vecOut.failed # Get(searched).kgOut.failed
     /\ validate_input(state.input_query).is_safe
     /\ validate_topic(state.input_query).is_on_topic
     /\ extFail = {"query"}) =>
        LET c == Get(searched)
            surviving == IF c.vecOut.failed THEN Neo4jGetContext(c.kgOut)
                         ELSE QdrantSearch(c.vecOut)
            unfailed == search("HYBRID", VecAnswered(c.vecOut), KgAnswered(c.kgOut))
        IN /\ pc # "raised"
           /\ c.response.items = surviving
           /\ IsSet(state.retrieval_context) =>
                 ContextOf(state).retrieval_confidence <
                    Get(query_patch_ok(unfailed).retrieval_context).retrieval_confidence
           /\ c.response.debug_info # unfailed.debug_info

\* C14: when both sub-searches of a HYBRID search fail, the run is not aborted,
\* the retrieval context is present with vector_results, kg_results and
\* merged_results all empty, and once Assess has run is_sufficient is false and
\* the clarification branch is the one taken.
BothFailedYieldsEmptyContext ==
    (/\ IsSet(searched)
     /\ Get(searched).strategy = "HYBRID"
     /\ Get(searched).vecOut.failed /\ Get(searched).kgOut.failed) =>
        /\ pc # "raised"
        /\ Ran("query")
        /\ IsSet(state.retrieval_context)
        /\ IsSet(state.retrieval_context) =>
              /\ ContextOf(state).vector_results = <<>>
              /\ ContextOf(state).kg_results = <<>>
              /\ ContextOf(state).merged_results = <<>>
        /\ Ran("reasoner") =>
              /\ ~state.is_sufficient
              /\ pc = "ask_clarification" \/ Ran("ask_clarification")
              /\ ~Ran("generate_answer") /\ pc # "generate_answer"

BothFailedYieldsEmptyContextWitness ==
    /\ IsSet(searched)
    /\ Get(searched).strategy = "HYBRID"
    /\ Get(searched).vecOut.failed /\ Get(searched).kgOut.failed
    /\ pc = "END" /\ Ran("ask_clarification")

\* nothing was retrieved: no context, or a context whose two result lists are empty
NothingRetrieved(s) ==
    \/ ~IsSet(s.retrieval_context)
    \/ /\ IsSet(s.retrieval_context)
       /\ ContextOf(s).vector_results = <<>>
       /\ ContextOf(s).kg_results = <<>>

\* C15: when both searches returned no items, or the retrieval context is absent,
\* Assess sets is_sufficient false and needs_clarification true and makes no
\* LLM call.
EmptyRetrievalSkipsJudge ==
    (Ran("reasoner") /\ NothingRetrieved(state)) =>
        /\ ~state.is_sufficient
        /\ state.needs_clarification
        /\ llmCalls["reasoner"] = 0

\* both stores answered, with no items, and Assess has run
EmptyRetrievalSkipsJudgeWitness ==
    /\ Ran("reasoner")
    /\ IsSet(state.retrieval_context)
    /\ IsSet(searched)
    /\ Get(searched).strategy = "HYBRID"
    /\ ~Get(searched).vecOut.failed /\ ~Get(searched).kgOut.failed
    /\ NothingRetrieved(state)

----------------------------------------------------------------------------
(* Properties of the stages that call an LLM *)

\* the node that returned last
LastRan == IF trace = <<>> THEN "START" ELSE trace[Len(trace)]

LastRecord(s) == s.private_reasoning[Len(s.private_reasoning)]

\* C16: Assess is fail-closed: when the judge call fails or its output is not a
\* valid verdict, is_sufficient is false and the stage's reasoning record has
\* confidence 0; is_sufficient is true only after a valid verdict that says true.
AssessFailsClosed ==
    /\ (LastRan = "reasoner" /\ llmReplies # <<>>) =>
          LET reply == llmReplies[1]
              parsed == reply.kind = "verdict" /\ ValidConfidence(reply.confidence)
          IN /\ ~parsed =>
                   /\ ~state.is_sufficient
                   /\ state.private_reasoning # <<>>
                   /\ LastRecord(state).step = "Reasoner"
                   /\ LastRecord(state).confidence = 0
             /\ state.is_sufficient => (parsed /\ reply.is_sufficient)
    /\ state.is_sufficient => (Ran("reasoner") /\ llmCalls["reasoner"] = 1)

\* the judge answered with text that is no verdict
AssessFailsClosedWitness ==
    /\ LastRan = "reasoner"
    /\ llmReplies # <<>>
    /\ llmReplies[1].kind = "unparseable"
    /\ pc = "ask_clarification"
    /\ LastRecord(state).confidence = 0

\* C17: whenever Request-Clarification has run, whatever its LLM call came back
\* with, the final state has needs_clarification true and a clarification message
\* that is not empty; when the call failed the message is the fixed template.
\* Stated for a safe, on-topic query and a run in which no earlier stage failed.
ClarificationAlwaysHasMessage ==
    (/\ pc = "END" /\ LastRan = "ask_clarification"
     /\ validate_input(state.input_query).is_safe
     /\ validate_topic(state.input_query).is_on_topic
     /\ extFail \subseteq {"ask_clarification"}) =>
        /\ state.needs_clarification
        /\ IsSet(StateGet(state, "clarification_message"))
        /\ Get(StateGet(state, "clarification_message")).kind # "empty"
        /\ llmReplies = <<"error">> =>
              Get(StateGet(state, "clarification_message")).kind = "template"

\* C18: Generate-Answer calls the LLM at most twice, the second time only when
\* the first call failed and then exactly once; when both calls fail the answer is
\* the degraded one naming the number of retrieved documents, and the stage's
\* reasoning record has confidence 0.
GenerateAnswerRetriesOnce ==
    /\ llmCalls["generate_answer"] <= 2
    /\ LastRan = "generate_answer" =>
          /\ Len(llmReplies) = llmCalls["generate_answer"]
          /\ Len(llmReplies) >= 1
          /\ (Len(llmReplies) = 2) <=> (llmReplies[1] = "error")
          /\ IsSet(state.generated_answer)
          /\ llmReplies = <<"error", "error">> =>
                /\ Get(state.generated_answer).kind = "degraded"
                /\ Get(state.generated_answer).docs = Len(ContextOf(state).merged_results)
                /\ LastRecord(state).step = "GenerateAnswer"
                /\ LastRecord(state).confidence = 0

\* both calls failed with two documents retrieved
GenerateAnswerRetriesOnceWitness ==
    /\ LastRan = "generate_answer"
    /\ llmReplies = <<"error", "error">>
    /\ Get(state.generated_answer) = [kind |-> "degraded", docs |-> 2]

\* C19: whenever Build-Explanation has run, whatever Generate-Answer produced
\* and whatever its own LLM call came back with, explanations holds an
\* Explanation; on an LLM error or unparseable output it is the fixed default
\* with reduced confidence.  Stated for a safe, on-topic query and a run in which
\* no earlier stage failed.
ExplanationNeverOmitted ==
    (/\ LastRan = "build_explanation"
     /\ validate_input(state.input_query).is_safe
     /\ validate_topic(state.input_query).is_on_topic
     /\ extFail \subseteq {"build_explanation"}) =>
        /\ state.explanations # <<>>
        /\ (llmReplies # <<>> /\ llmReplies[1].kind # "json") =>
              /\ state.explanations[1].reasoning_type = "synthesis"
              /\ state.explanations[1].confidence < 100

----------------------------------------------------------------------------
(* print_result: what the CLI shows for the final state of a run *)

\* the colour of a confidence: green from 0.7, yellow from 0.5, red below
ConfColor(c) == IF c >= 70 THEN "green" ELSE IF c >= 50 THEN "yellow" ELSE "red"

\* bool(result.get(k)) for a key that holds a flag
Shown(result, k) == StateGet(result, k) = Some(TRUE)

\* the sources line of an explanation: the first three ids, "..." when more
SourcesLine(ids) == [ids |-> Take(ids, 3), more |-> Len(ids) > 3]

ExplanationLines(exps) ==
    [i \in 1..Len(exps) |->
        [reasoning |-> exps[i].reasoning_type,
         confidence |-> exps[i].confidence,
         color |-> IF exps[i].confidence >= 70 THEN "green" ELSE "yellow",
         sources |-> SourcesLine(exps[i].evidence_ids),
         limitations |-> exps[i].limitations]]

TraceLines(recs) ==
    [i \in 1..Len(recs) |->
        [color |-> ConfColor(recs[i].confidence), step |-> recs[i].step,
         summary |-> recs[i].summary]]

\* the panels and lines print_result writes, top to bottom; a part not written
\* is None or the empty list
print_result(result) ==
    LET info == [intent |-> result.intent, emotion |-> result.emotion]
        blocked == Shown(result, "is_blocked")
        clarify == /\ ~blocked
                   /\ result.needs_clarification
                   /\ IsSet(StateGet(result, "clarification_message"))
        rest == ~blocked /\ ~clarify
    IN [info |-> info,
        blocked |-> blocked,
        clarification |-> IF clarify THEN StateGet(result, "clarification_message")
                          ELSE None,
        answer |-> IF rest /\ Truthy(result.generated_answer)
                   THEN result.generated_answer ELSE None,
        explanation |-> IF rest THEN ExplanationLines(result.explanations) ELSE <<>>,
        reasoning_trace |-> IF rest THEN TraceLines(result.private_reasoning) ELSE <<>>]

\* reasoning traces a final state could hold instead of its own
OtherReasonings ==
    {<<>>,
     <<ReasoningRecord("Reasoner", "Error during evaluation", 0)>>,
     <<ReasoningRecord("Query", "Strategy chosen. Found items", 100),
       ReasoningRecord("GenerateAnswer", "Used fallback simple generation.", 70)>>}

\* C20: what is shown for a final state does not depend on private_reasoning:
\* the final state and any state that differs from it only in private_reasoning
\* are rendered the same.  Stated for a safe, on-topic query and a run in which
\* no external call failed.
RenderingIgnoresReasoning ==
    (/\ pc = "END"
     /\ validate_input(state.input_query).is_safe
     /\ validate_topic(state.input_query).is_on_topic
     /\ extFail = {}) =>
        \A r \in OtherReasonings :
            print_result([state EXCEPT !.private_reasoning = r]) = print_result(state)

----------------------------------------------------------------------------
(* Properties of the LLM access *)

LlmNodes == {"interpreter", "reasoner", "generate_answer", "build_explanation",
             "ask_clarification"}

\* the i-th LLM call of the node that ran last came back with nothing usable
CallFailed(i) ==
    IF LastRan \in {"generate_answer", "ask_clarification"}
    THEN llmReplies[i] = "error"
    ELSE llmReplies[i].kind = "error"

\* C21: every LLM call of the five LLM stages has failover: a call made while
\* Ollama fails and Gemini answers obtains a response, so the stage does not
\* degrade.  Stated for a safe, on-topic query and a run in which no earlier
\* stage failed.
StagesUseFailover ==
    (/\ LastRan \in LlmNodes
     /\ validate_input(state.input_query).is_safe
     /\ validate_topic(state.input_query).is_on_topic
     /\ extFail \subseteq {LastRan}) =>
        \A i \in 1..Len(llmReplies) :
            (~llmBackends[i].ollama /\ llmBackends[i].gemini) =>
                (~CallFailed(i) /\ LastRan \notin extFail)

\* C22: select_client returns None only for an empty registry; with no client
\* marked healthy it still selects a registered one, so whatever failed before,
\* an execute call on a non-empty registry invokes at least one backend and is
\* never refused for lack of clients.
SelectFallsBackToAll ==
    /\ (0 \in select_client(clients, strategy, rr_index)) <=> (clients = <<>>)
    /\ \A c \in Callers :
          /\ calls[c].error = "no_clients" => clients = <<>>
          /\ (calls[c].pc # "idle" /\ clients # <<>>) => Len(calls[c].inv) >= 1

\* a call failed on the only backend, leaving none marked healthy, and the next
\* call was served by that backend
SelectFallsBackToAllWitness ==
    /\ Len(clients) = 1
    /\ clients[1].error_count > 0
    /\ clients[1].request_count = 1
    /\ started = 2
    /\ calls[1].pc = "returned" /\ calls[1].inv = <<1>>
    /\ calls[2].pc = "idle"

\* the first healthy client in registry order (0 when none is healthy)
FirstHealthy(cl) ==
    IF \E i \in 1..Len(cl) : cl[i].is_healthy
    THEN CHOOSE i \in 1..Len(cl) :
            cl[i].is_healthy /\ \A j \in 1..(i - 1) : ~cl[j].is_healthy
    ELSE 0

\* C23: under FAILOVER, while some backend is marked healthy, select_client
\* returns the healthy backend that comes first in the registry, and the first
\* backend an execute call invokes is that backend.
FailoverPicksFirstHealthy ==
    /\ []((strategy = "failover" /\ FirstHealthy(clients) # 0) =>
            select_client(clients, strategy, rr_index) = {FirstHealthy(clients)})
    /\ [][\A c \in Callers :
            (/\ strategy = "failover"
             /\ FirstHealthy(clients) # 0
             /\ started' = started + 1
             /\ calls'[c] # calls[c]) =>
                (calls'[c].pc = "awaiting" /\ calls'[c].inv = <<FirstHealthy(clients)>>)]_vars

\* a FAILOVER call that began while the first backend was marked unhealthy went
\* to the second one first and was served by it
FailoverPicksFirstHealthyWitness ==
    /\ strategy = "failover"
    /\ Len(clients) = 2
    /\ ~clients[1].is_healthy /\ clients[2].is_healthy
    /\ \E c \in Callers :
          calls[c].pc = "returned" /\ calls[c].inv = <<2>> /\ calls[c].result = 2

\* the execute calls so far are all still on record and none is in flight
AllCallsFinished ==
    /\ \A c \in Callers : calls[c].pc # "awaiting"
    /\ Cardinality({c \in Callers : calls[c].pc # "idle"}) = started

\* C25: no counter update is lost under concurrent execute calls on one
\* registry: once all calls have finished, every backend's request_count is the
\* number of invocations of it that succeeded.
RequestCountsExact ==
    AllCallsFinished =>
        \A i \in 1..Len(clients) :
            clients[i].request_count =
                Cardinality({c \in Callers : calls[c].pc = "returned" /\ calls[c].result = i})

\* two calls were in flight together and both were served by the same backend
RequestCountsExactWitness ==
    /\ AllCallsFinished
    /\ started = 2
    /\ \A c \in Callers : calls[c].pc = "returned" /\ calls[c].result = 1
    /\ clients[1].request_count = 2

----------------------------------------------------------------------------
(* Properties of the retrieval *)

\* C24: the strategy a search ran with is VECTOR_ONLY exactly when the intent
\* type is specific_question or feature_request; for complaint_analysis,
\* summary_request, any other type (unknown included) and an absent intent it is
\* HYBRID.
StrategyFollowsIntent ==
    /\ SelectStrategy(None) = "HYBRID"
    /\ \A t \in IntentTypes \cup {"unknown"} :
          SelectStrategy(Some([type |-> t, confidence |-> 0])) \in {"VECTOR_ONLY", "HYBRID"}
    /\ IsSet(searched) =>
          /\ Get(searched).strategy \in {"VECTOR_ONLY", "HYBRID"}
          /\ (Get(searched).strategy = "VECTOR_ONLY") <=>
                (/\ IsSet(state.intent)
                 /\ Get(state.intent).type \in {"specific_question", "feature_request"})

\* a search ran with VECTOR_ONLY for a feature request
StrategyFollowsIntentWitness ==
    /\ LastRan = "query"
    /\ IsSet(searched)
    /\ Get(searched).strategy = "VECTOR_ONLY"
    /\ Get(state.intent).type = "feature_request"

----------------------------------------------------------------------------
(* Query texts: a text is the sequence of its words *)

SeqsUpTo(S, n) == UNION {[1..k -> S] : k \in 0..n}

\* what the patterns of topic_rail.py and input_rail.py find in a word
OnTopicWords == {"battery"}                  \* ON_TOPIC_KEYWORDS
FollowUpWords == {"yes", "want", "this"}     \* FOLLOW_UP_KEYWORDS
OffTopicWords == {"weather"}                 \* OFF_TOPIC_PATTERNS["weather"]
LeadingYesNoWords == {"yes"}                 \* ^(yes|yeah|...|ok)\b
IndicatorWords == {"want"}                   \* \b(want|need|...)\b, \b(one|first|...)\b
QuestionWords == {"why", "this"}             \* (what|how|why|do|does|is|...) as substrings
JailbreakWords == {"jailbreak"}              \* JAILBREAK_PATTERNS
ToxicWords == {"suicide"}                    \* TOXIC_PATTERNS
PiiWords == {"a@b.com"}                      \* PII_PATTERNS["email"]
MarkerWords == {"[/INST]"}                   \* the markers sanitize_query removes

\* the words of the queries given to validate_topic
TopicWords == {"battery", "yes", "want", "this", "weather", "help", "hello", "why", "?"}

\* the words of the queries given to input_guardrail_node
GuardWords == {"battery", "weather", "hello", "jailbreak", "suicide", "a@b.com", "[/INST]"}

\* conversation messages: a user turn, and a clarification turn with or
\* without content
Messages == {[role |-> "user", content |-> "text"],
             [role |-> "clarification", content |-> "text"],
             [role |-> "clarification", content |-> ""]}

Histories == SeqsUpTo(Messages, MaxHist)

----------------------------------------------------------------------------
(* topic_rail.py *)

\* the score in hundredths: min(1.0, keyword_matches / 5), a follow-up keyword
\* counting half
calculate_topic_score(text, is_follow_up) ==
    LET keyword_matches == Cardinality(Range(text) \cap OnTopicWords)
        follow_up_matches == Cardinality(Range(text) \cap FollowUpWords)
    IN Min(100, 20 * keyword_matches + (IF is_follow_up THEN 10 * follow_up_matches ELSE 0))

\* <<is_off_topic, category>>
detect_off_topic(text) ==
    IF Range(text) \cap OffTopicWords # {} THEN <<TRUE, "weather">> ELSE <<FALSE, "">>

\* a greeting is the whole text; `^(help|how\s+do\s+i|what\s+can\s+you).*$`
\* matches whatever follows
is_greeting_or_meta(text) ==
    \/ text = <<"hello">>
    \/ text # <<>> /\ text[1] = "help"

\* the content of the last message with role 'clarification', None without one
LastClarification(history) ==
    LET at == {i \in 1..Len(history) : history[i].role = "clarification"}
    IN IF at = {} THEN None
       ELSE Some(history[CHOOSE i \in at : \A j \in at : j <= i].content)

\* any(re.search(p, query.lower()) for p in response_indicators)
IsResponse(text) ==
    \/ text # <<>> /\ text[1] \in LeadingYesNoWords
    \/ Range(text) \cap IndicatorWords # {}

\* review_question_patterns: a question word followed somewhere by '?'
\* (no word of the model matches tell me / show me / find / search / look for)
IsQuestion(text) ==
    \E i, j \in 1..Len(text) : i <= j /\ text[i] \in QuestionWords /\ text[j] = "?"

TopicRailResult(on, category, confidence) ==
    [is_on_topic |-> on, off_topic_category |-> category, topic_confidence |-> confidence]

\* the relaxed validation of a clarification follow-up: the result it returns,
\* or None when it falls through to the ordinary checks
RelaxedValidation(query, conversation_history) ==
    LET last == LastClarification(conversation_history)
        score == calculate_topic_score(query, TRUE)
    IN IF IsSet(last) /\ Get(last) # "" /\ IsResponse(query)
       THEN Some(TopicRailResult(TRUE, "", 70))
       ELSE IF score >= 10
            THEN Some(TopicRailResult(TRUE, "", IF score > 50 THEN score ELSE 50))
            ELSE None

validate_topic_ignores_context(query, pending_clarification, conversation_history) ==
    LET score == calculate_topic_score(query, FALSE)
    IN IF query = <<>> THEN TopicRailResult(FALSE, "", 100)
       ELSE IF is_greeting_or_meta(query) THEN TopicRailResult(TRUE, "", 100)
       ELSE IF detect_off_topic(query)[1]
       THEN TopicRailResult(FALSE, detect_off_topic(query)[2], 0)
       ELSE IF score < 20 /\ ~IsQuestion(query) THEN TopicRailResult(FALSE, "", score)
       ELSE TopicRailResult(TRUE, "", IF score > 50 THEN score ELSE 50)

\* validate_topic(query, pending_clarification, conversation_history) on a
\* query text
validate_topic_text(query, pending_clarification, conversation_history) ==
    LET score == calculate_topic_score(query, FALSE)
        relaxed == RelaxedValidation(query, conversation_history)
    IN IF query = <<>> THEN TopicRailResult(FALSE, "", 100)
       ELSE IF is_greeting_or_meta(query) THEN TopicRailResult(TRUE, "", 100)
       ELSE IF pending_clarification /\ IsSet(relaxed) THEN Get(relaxed)
       ELSE IF detect_off_topic(query)[1]
       THEN TopicRailResult(FALSE, detect_off_topic(query)[2], 0)
       ELSE IF score < 20 /\ ~IsQuestion(query) THEN TopicRailResult(FALSE, "", score)
       ELSE TopicRailResult(TRUE, "", IF score > 50 THEN score ELSE 50)

\* one call of validate_topic
TopicCall(q, p, h) ==
    [query |-> q, pending_clarification |-> p, conversation_history |-> h, result |-> None]

validate_topic_call ==
    /\ IsSet(topicCall)
    /\ Get(topicCall).result = None
    /\ topicCall' = Some([Get(topicCall) EXCEPT !.result =
          Some(validate_topic_text(Get(topicCall).query,
                                   Get(topicCall).pending_clarification,
                                   Get(topicCall).conversation_history))])
    /\ UNCHANGED <<pipeVars, lbVars, mergeVars, searchVars, guardVars, explainVars>>

InitTopic ==
    /\ \E q \in SeqsUpTo(TopicWords, MaxWords), p \in BOOLEAN, h \in Histories :
          topicCall = Some(TopicCall(q, p, h))
    /\ pc = "START"
    /\ state = GraphState([risk |-> "none", off_topic |-> FALSE])
    /\ trace = <<>>
    /\ explainCall = None
    /\ extFail = {}
    /\ llmCalls = [n \in Nodes |-> 0]
    /\ llmReplies = <<>>
    /\ llmBackends = <<>>
    /\ searched = None
    /\ mergeCall = None
    /\ searchCall = None
    /\ guardCall = None
    /\ clients = <<>>
    /\ strategy = "failover"
    /\ rr_index = 0
    /\ calls = <<>>
    /\ started = 0
    /\ lastOutcome = <<>>

NextTopic == validate_topic_call

SpecTopic == InitTopic /\ [][NextTopic]_vars

----------------------------------------------------------------------------
(* Properties of validate_topic *)

TopicDone == IsSet(topicCall) /\ IsSet(Get(topicCall).result)

\* the history holds a clarification message with content
HasClarification(history) ==
    \E i \in 1..Len(history) :
        history[i].role = "clarification" /\ history[i].content # ""

\* C28: a query that matches an off-topic pattern is rejected even when a
\* clarification is pending and the history holds a clarification message.
\* Stated for a query that has no on-topic keyword and is no greeting or meta
\* question.
PendingNeverAdmitsOffTopic ==
    (/\ TopicDone
     /\ Range(Get(topicCall).query) \cap OffTopicWords # {}
     /\ Range(Get(topicCall).query) \cap OnTopicWords = {}
     /\ ~is_greeting_or_meta(Get(topicCall).query)
     /\ Get(topicCall).pending_clarification
     /\ HasClarification(Get(topicCall).conversation_history)) =>
        ~Get(Get(topicCall).result).is_on_topic

\* a reply with a response indicator, no on-topic keyword, no off-topic pattern
\* and no question form
IsBareReply(text) ==
    /\ \/ text # <<>> /\ text[1] \in LeadingYesNoWords
       \/ Range(text) \cap IndicatorWords # {}
    /\ Range(text) \cap OnTopicWords = {}
    /\ Range(text) \cap OffTopicWords = {}
    /\ ~\E i, j \in 1..Len(text) : i <= j /\ text[i] \in QuestionWords /\ text[j] = "?"

----------------------------------------------------------------------------
(* input_rail.py and input_guardrail_node *)

\* PII is masked, the injection markers are removed (the text is a sequence of
\* words, so strip() has nothing to remove)
sanitize_query(text) ==
    LET idx == SelectIdx([i \in 1..Len(text) |-> text[i] \notin MarkerWords], 1, Len(text))
    IN [j \in 1..Len(idx) |->
          IF text[idx[j]] \in PiiWords THEN "[EMAIL_REDACTED]" ELSE text[idx[j]]]

InputRailResult(safe, risk, sanitized, pii) ==
    [is_safe |-> safe, risk_type |-> risk, sanitized_query |-> sanitized,
     pii_detected |-> pii]

\* validate_input(query) on a query text
validate_input_text(query) ==
    IF query = <<>> THEN InputRailResult(FALSE, "invalid_input", <<>>, {})
    ELSE IF Range(query) \cap JailbreakWords # {}
    THEN InputRailResult(FALSE, "jailbreak", <<>>, {})
    ELSE IF Range(query) \cap ToxicWords # {}
    THEN InputRailResult(FALSE, "toxic_content", <<>>, {})
    ELSE InputRailResult(TRUE, "", sanitize_query(query),
                         IF Range(query) \cap PiiWords # {} THEN {"email"} ELSE {})

\* the patch input_guardrail_node returns; pending_clarification and
\* conversation_history are what it reads from its state argument
input_guardrail_node(query, pending_clarification, conversation_history) ==
    LET input_result == validate_input_text(query)
        topic_result == validate_topic_text(query, pending_clarification,
                                            conversation_history)
    IN IF ~input_result.is_safe
       THEN [is_blocked |-> TRUE, blocked_reason |-> input_result.risk_type,
             pending_clarification |-> FALSE,
             private_reasoning |-> <<ReasoningRecord("InputGuardrail", "Blocked", 100)>>]
       ELSE IF ~topic_result.is_on_topic
       THEN [is_blocked |-> TRUE, blocked_reason |-> "redirect",
             pending_clarification |-> FALSE,
             private_reasoning |-> <<ReasoningRecord("InputGuardrail", "Off-topic", 100)>>]
       ELSE [input_query |-> IF input_result.sanitized_query # <<>>
                             THEN input_result.sanitized_query ELSE query,
             guardrail_warnings |-> input_result.pii_detected,
             private_reasoning |->
                <<ReasoningRecord("InputGuardrail", "Passed validation.",
                                  topic_result.topic_confidence)>>]

\* one call of the node on the state a query starts with
GuardCall(q, p, h) ==
    [state |-> GraphState(q), pending_clarification |-> p,
     conversation_history |-> h, after |-> None]

input_guardrail_call ==
    /\ IsSet(guardCall)
    /\ Get(guardCall).after = None
    /\ LET c == Get(guardCall)
           patch == input_guardrail_node(c.state.input_query, c.pending_clarification,
                                         c.conversation_history)
       IN guardCall' = Some([c EXCEPT !.after = Some(ApplyPatch(c.state, patch))])
    /\ UNCHANGED <<pipeVars, lbVars, mergeVars, searchVars, topicVars, explainVars>>

InitGuardrail ==
    /\ \E q \in SeqsUpTo(GuardWords, MaxWords), p \in BOOLEAN, h \in Histories :
          guardCall = Some(GuardCall(q, p, h))
    /\ pc = "START"
    /\ state = GraphState([risk |-> "none", off_topic |-> FALSE])
    /\ trace = <<>>
    /\ explainCall = None
    /\ extFail = {}
    /\ llmCalls = [n \in Nodes |-> 0]
    /\ llmReplies = <<>>
    /\ llmBackends = <<>>
    /\ searched = None
    /\ mergeCall = None
    /\ searchCall = None
    /\ topicCall = None
    /\ clients = <<>>
    /\ strategy = "failover"
    /\ rr_index = 0
    /\ calls = <<>>
    /\ started = 0
    /\ lastOutcome = <<>>

NextGuardrail == input_guardrail_call

SpecGuardrail == InitGuardrail /\ [][NextGuardrail]_vars

ResponseIdsUnique ==
    (/\ IsSet(searched)
     /\ validate_input(state.input_query).is_safe
     /\ validate_topic(state.input_query).is_on_topic
     /\ extFail = {}) =>
        \A i, j \in 1..Len(Get(searched).response.items) :
            Get(searched).response.items[i].id = Get(searched).response.items[j].id
                => i = j

----------------------------------------------------------------------------
(* RagEngine.search, with its two sub-searches as separate steps *)

\* one call of search: the stores' outcomes, what each sub-search returned once
\* it completed, the order of completion and the response
SearchCall(strat, vecOut, kgOut) ==
    [strategy |-> strat, vecOut |-> vecOut, kgOut |-> kgOut, vector_results |-> None,
     graph_results |-> None, completed |-> <<>>, response |-> None]

\* vector_store.search returns: called directly under VECTOR_ONLY, in a worker
\* thread under HYBRID
vector_search_completes ==
    /\ IsSet(searchCall)
    /\ Get(searchCall).response = None
    /\ Get(searchCall).vector_results = None
    /\ searchCall' = Some([Get(searchCall) EXCEPT
                             !.vector_results = Some(QdrantSearch(Get(searchCall).vecOut)),
                             !.completed = Append(@, "qdrant")])
    /\ UNCHANGED <<pipeVars, lbVars, mergeVars, topicVars, guardVars, explainVars>>

\* graph_store.get_context returns in its worker thread; only HYBRID starts it
graph_context_completes ==
    /\ IsSet(searchCall)
    /\ Get(searchCall).strategy = "HYBRID"
    /\ Get(searchCall).response = None
    /\ Get(searchCall).graph_results = None
    /\ searchCall' = Some([Get(searchCall) EXCEPT
                             !.graph_results = Some(Neo4jGetContext(Get(searchCall).kgOut)),
                             !.completed = Append(@, "neo4j")])
    /\ UNCHANGED <<pipeVars, lbVars, mergeVars, topicVars, guardVars, explainVars>>

Gathered_first_done(c) == IsSet(c.vector_results)

\* search goes on to the merge: after the direct call under VECTOR_ONLY, after
\* `await asyncio.gather(vec_task, graph_task)` under HYBRID
Gathered(c) ==
    IF c.strategy = "HYBRID" THEN IsSet(c.vector_results) /\ IsSet(c.graph_results)
    ELSE IsSet(c.vector_results)

\* the merge and the response; gather hands the results over in argument order
search_returns ==
    /\ IsSet(searchCall)
    /\ Get(searchCall).response = None
    /\ Gathered(Get(searchCall))
    /\ LET c == Get(searchCall)
           vector_results == Get(c.vector_results)
           graph_results == IF IsSet(c.graph_results) THEN Get(c.graph_results) ELSE <<>>
           merged == _merge_results(vector_results, graph_results)
       IN searchCall' = Some([c EXCEPT !.response =
             Some([items |-> merged, total_found |-> Len(merged),
                   strategy_used |-> c.strategy,
                   debug_info |-> [vector_count |-> Len(vector_results),
                                   graph_count |-> Len(graph_results)]])])
    /\ UNCHANGED <<pipeVars, lbVars, mergeVars, topicVars, guardVars, explainVars>>

InitSearch ==
    /\ \E strat \in {"VECTOR_ONLY", "HYBRID"}, vecOut \in VecOutcomes, kgOut \in KgOutcomes :
          searchCall = Some(SearchCall(strat, vecOut, kgOut))
    /\ pc = "START"
    /\ state = GraphState([risk |-> "none", off_topic |-> FALSE])
    /\ trace = <<>>
    /\ explainCall = None
    /\ extFail = {}
    /\ llmCalls = [n \in Nodes |-> 0]
    /\ llmReplies = <<>>
    /\ llmBackends = <<>>
    /\ searched = None
    /\ mergeCall = None
    /\ topicCall = None
    /\ guardCall = None
    /\ clients = <<>>
    /\ strategy = "failover"
    /\ rr_index = 0
    /\ calls = <<>>
    /\ started = 0
    /\ lastOutcome = <<>>

NextSearch ==
    \/ vector_search_completes
    \/ graph_context_completes
    \/ search_returns

SpecSearch == InitSearch /\ [][NextSearch]_vars

\* C30: under HYBRID the merge runs only after both sub-searches have
\* completed, and the merged list is the same whichever completed first; under
\* VECTOR_ONLY the graph store is never queried and the graph result set is empty.
MergeAwaitsBothSearches ==
    IsSet(searchCall) =>
        LET c == Get(searchCall)
        IN /\ (c.strategy = "HYBRID" /\ IsSet(c.response)) =>
                /\ Range(c.completed) = {"qdrant", "neo4j"}
                /\ Get(c.response).items =
                      StableSortDesc(QdrantSearch(c.vecOut) \o Neo4jGetContext(c.kgOut),
                                     Len(QdrantSearch(c.vecOut))
                                        + Len(Neo4jGetContext(c.kgOut)))
           /\ c.strategy = "VECTOR_ONLY" =>
                /\ "neo4j" \notin Range(c.completed)
                /\ c.graph_results = None
                /\ IsSet(c.response) =>
                      /\ Get(c.response).debug_info.graph_count = 0
                      /\ \A i \in 1..Len(Get(c.response).items) :
                            Get(c.response).items[i].source = "qdrant"

\* a HYBRID search whose graph lookup completed first merged two vector hits
\* and two graph records
MergeAwaitsBothSearchesWitness ==
    /\ IsSet(searchCall)
    /\ Get(searchCall).strategy = "HYBRID"
    /\ Get(searchCall).completed = <<"neo4j", "qdrant">>
    /\ IsSet(Get(searchCall).response)
    /\ Get(Get(searchCall).response).debug_info = [vector_count |-> 2, graph_count |-> 2]

----------------------------------------------------------------------------
(* Properties of the retrieval context *)

\* how often x occurs in the list
Count(list, x) == Cardinality({i \in 1..Len(list) : list[i] = x})

\* the two lists hold the same items, each as often
SameItems(a, b) ==
    /\ Len(a) = Len(b)
    /\ \A x \in Range(a) \cup Range(b) : Count(a, x) = Count(b, x)

\* what the stores returned to the search on record
StoreResults ==
    QdrantSearch(Get(searched).vecOut)
        \o (IF Get(searched).strategy = "HYBRID"
            THEN Neo4jGetContext(Get(searched).kgOut) ELSE <<>>)

\* C31: merged_results is a permutation of the vector results followed by the
\* graph results: nothing is dropped or deduplicated, and vector_results and
\* kg_results of the context together hold exactly the items of merged_results.
MergedIsPermutation ==
    (IsSet(searched) /\ IsSet(state.retrieval_context)) =>
        LET ctx == Get(state.retrieval_context)
        IN /\ Len(ctx.merged_results) = Len(StoreResults)
           /\ SameItems(ctx.merged_results, StoreResults)
           /\ Len(ctx.merged_results) = Len(ctx.vector_results) + Len(ctx.kg_results)
           /\ SameItems(ctx.vector_results \o ctx.kg_results, ctx.merged_results)

\* a context built from two vector hits and two graph records, which are equal
\* as items
MergedIsPermutationWitness ==
    /\ IsSet(searched)
    /\ IsSet(state.retrieval_context)
    /\ Len(Get(state.retrieval_context).vector_results) = 2
    /\ Len(Get(state.retrieval_context).kg_results) = 2
    /\ Get(state.retrieval_context).kg_results[1] = Get(state.retrieval_context).kg_results[2]
    /\ Len(Get(state.retrieval_context).merged_results) = 4

----------------------------------------------------------------------------
(* explanation_node as a function of the state it is given *)

\* the merged lists a state may hold: up to MaxItems items of either source,
\* best first
MergedLists ==
    {[i \in 1..Len(src) |->
        IF src[i] = "qdrant" THEN RetrievalItem(QdrantIds[i], "qdrant", Neo4jItemScore)
        ELSE RetrievalItem(Neo4jItemId, "neo4j", Neo4jItemScore)] :
     src \in SeqsUpTo({"qdrant", "neo4j"}, MaxItems)}

\* the state explanation_node is called with: an answer and the context
ExplainState(merged) ==
    [GraphState([risk |-> "none", off_topic |-> FALSE]) EXCEPT
        !.retrieval_context =
            Some([vector_results |-> FilterSource(merged, "qdrant"),
                  kg_results |-> FilterSource(merged, "neo4j"),
                  merged_results |-> merged,
                  retrieval_confidence |-> RetrievalConfidence]),
        !.is_sufficient = TRUE,
        !.generated_answer = Some([kind |-> "text", docs |-> 0])]

ExplainCall(merged, reply) ==
    [state |-> ExplainState(merged), reply |-> reply, after |-> None]

explanation_call ==
    /\ IsSet(explainCall)
    /\ Get(explainCall).after = None
    /\ LET c == Get(explainCall)
       IN explainCall' = Some([c EXCEPT !.after =
             Some(ApplyPatch(c.state, explanation_patch(c.state, c.reply)))])
    /\ UNCHANGED <<pipeVars, lbVars, mergeVars, searchVars, topicVars, guardVars>>

InitExplain ==
    /\ \E merged \in MergedLists, reply \in ExplanationReplies :
          explainCall = Some(ExplainCall(merged, reply))
    /\ pc = "START"
    /\ state = GraphState([risk |-> "none", off_topic |-> FALSE])
    /\ trace = <<>>
    /\ extFail = {}
    /\ llmCalls = [n \in Nodes |-> 0]
    /\ llmReplies = <<>>
    /\ llmBackends = <<>>
    /\ searched = None
    /\ mergeCall = None
    /\ searchCall = None
    /\ topicCall = None
    /\ guardCall = None
    /\ clients = <<>>
    /\ strategy = "failover"
    /\ rr_index = 0
    /\ calls = <<>>
    /\ started = 0
    /\ lastOutcome = <<>>

NextExplain == explanation_call

SpecExplain == InitExplain /\ [][NextExplain]_vars

\* C32: the evidence_ids of the explanation are the ids of the first
\* min(5, |merged_results|) items of merged_results, in that order, whether the
\* LLM call gave a usable reply, an unparseable one or failed; never more than
\* five.
EvidenceIsFirstFive ==
    (IsSet(explainCall) /\ IsSet(Get(explainCall).after)) =>
        LET merged == Get(Get(explainCall).state.retrieval_context).merged_results
            after == Get(Get(explainCall).after)
            n == IF Len(merged) < 5 THEN Len(merged) ELSE 5
        IN /\ Len(after.explanations) = 1
           /\ Len(after.explanations[1].evidence_ids) <= 5
           /\ after.explanations[1].evidence_ids = [i \in 1..n |-> merged[i].id]

\* six merged items and a failed LLM call: the fallback explanation cites the
\* first five
EvidenceIsFirstFiveWitness ==
    /\ IsSet(explainCall)
    /\ IsSet(Get(explainCall).after)
    /\ Get(explainCall).reply.kind = "error"
    /\ Len(Get(Get(explainCall).state.retrieval_context).merged_results) = 6
    /\ Len(Get(Get(explainCall).after).explanations[1].evidence_ids) = 5

----------------------------------------------------------------------------
(* Properties of the selection strategies and the health flags *)

RECURSIVE SelectRun(_, _, _, _)
\* what n select_client calls in a row return, the registry staying as it is
SelectRun(cl, strat, rr, n) ==
    IF n = 0 THEN <<>>
    ELSE <<CHOOSE x \in select_client(cl, strat, rr) : TRUE>>
            \o SelectRun(cl, strat, rr_after_select(cl, strat, rr), n - 1)

\* C33: under ROUND_ROBIN, with the same k >= 1 backends marked healthy
\* throughout, k select_client calls in a row return each healthy backend
\* exactly once and no unhealthy one.
RoundRobinVisitsEachHealthy ==
    LET k == Cardinality({i \in 1..Len(clients) : clients[i].is_healthy})
        run == SelectRun(clients, "round_robin", rr_index, k)
    IN (strategy = "round_robin" /\ k >= 1) =>
          /\ \A j \in 1..k : run[j] # 0 /\ clients[run[j]].is_healthy
          /\ \A i \in 1..Len(clients) :
                clients[i].is_healthy =>
                    Cardinality({j \in 1..k : run[j] = i}) = 1

\* round robin over two healthy backends: the first call was served by the
\* first backend, the second call by the second
RoundRobinVisitsEachHealthyWitness ==
    /\ strategy = "round_robin"
    /\ Len(clients) = 2
    /\ clients[1].is_healthy /\ clients[2].is_healthy
    /\ rr_index = 2
    /\ calls[1].pc = "returned" /\ calls[1].inv = <<1>>
    /\ calls[2].pc = "returned" /\ calls[2].inv = <<2>>

----------------------------------------------------------------------------
(* Frame properties of the stages *)

\* C34: a stage's patch changes only the stage's own fields: interpreter only
\* intent, emotion and private_reasoning; query only retrieval_context and
\* private_reasoning; reasoner only is_sufficient, needs_clarification and
\* private_reasoning; generate_answer only generated_answer and
\* private_reasoning; build_explanation only explanations and private_reasoning.
StagesChangeOwnFieldsOnly ==
    [][\A node \in {"interpreter", "query", "reasoner", "generate_answer",
                    "build_explanation"} :
          trace' = Append(trace, node) =>
             LET own == CASE node = "interpreter" -> {"intent", "emotion"}
                          [] node = "query" -> {"retrieval_context"}
                          [] node = "reasoner" -> {"is_sufficient", "needs_clarification"}
                          [] node = "generate_answer" -> {"generated_answer"}
                          [] node = "build_explanation" -> {"explanations"}
             IN \A k \in Channels \ (own \cup {"private_reasoning"}) :
                   state'[k] = state[k]]_vars

\* build_explanation has run and the fields the earlier stages wrote are still
\* there
StagesChangeOwnFieldsOnlyWitness ==
    /\ LastRan = "build_explanation"
    /\ IsSet(state.intent) /\ Get(state.intent).type = "feature_request"
    /\ IsSet(state.retrieval_context)
    /\ state.is_sufficient
    /\ IsSet(state.generated_answer)
    /\ state.explanations # <<>>

\* C35: in one execute call every backend whose invocation failed is marked
\* unhealthy, the backend whose invocation succeeded is marked healthy, and the
\* flag of a backend the call did not invoke is left alone.  Stated for each
\* step of a call, and for the end of a call that ran alone on a fresh registry.
ExecuteSetsHealthFlags ==
    /\ []((/\ started = 1
           /\ \E c \in Callers : calls[c].pc \in {"returned", "raised"}) =>
             \A c \in Callers :
                calls[c].pc \in {"returned", "raised"} =>
                   /\ \A j \in 1..Len(calls[c].outs) :
                         clients[calls[c].inv[j]].is_healthy = calls[c].outs[j]
                   /\ \A i \in 1..Len(clients) :
                         (\A j \in 1..Len(calls[c].inv) : calls[c].inv[j] # i) =>
                             clients[i].is_healthy)
    /\ [][\A c \in Callers :
            calls'[c] # calls[c] =>
               IF calls[c].pc = "awaiting"
               THEN /\ clients'[calls[c].cur].is_healthy = (calls'[c].pc = "returned")
                    /\ \A i \in 1..Len(clients) :
                          i # calls[c].cur =>
                             clients'[i].is_healthy = clients[i].is_healthy
               ELSE \A i \in 1..Len(clients) :
                       clients'[i].is_healthy = clients[i].is_healthy]_vars

\* one call alone: the first backend failed and is unhealthy, the second served
\* the call and is healthy
ExecuteSetsHealthFlagsWitness ==
    /\ started = 1
    /\ Len(clients) = 2
    /\ \E c \in Callers :
          /\ calls[c].pc = "returned"
          /\ calls[c].inv = <<1, 2>>
          /\ calls[c].outs = <<FALSE, TRUE>>
    /\ ~clients[1].is_healthy
    /\ clients[2].is_healthy

\* the invocations of backend i that failed, over the calls on record
FailedInvocations(i) ==
    UNION {{<<c, j>> : j \in {j \in 1..Len(calls[c].outs) :
                                calls[c].inv[j] = i /\ ~calls[c].outs[j]}} :
           c \in Callers}

\* C36: a failed invocation made through execute adds exactly one to the
\* backend's error_count and leaves its request_count alone, so once all calls
\* have finished error_count is the number of failed invocations of the backend.
ErrorCountCountsFailures ==
    AllCallsFinished =>
        \A i \in 1..Len(clients) :
            clients[i].error_count = Cardinality(FailedInvocations(i))

\* C37: from the end of the reasoner on, needs_clarification is the negation
\* of is_sufficient; before the reasoner has run both are false.
ClarificationIsNotSufficient ==
    IF "reasoner" \in Range(trace)
    THEN state.needs_clarification = ~state.is_sufficient
    ELSE ~state.needs_clarification /\ ~state.is_sufficient

\* a run that ended asking for clarification after the judge found the
\* retrieved documents insufficient
ClarificationIsNotSufficientWitness ==
    /\ pc = "END"
    /\ LastRan = "ask_clarification"
    /\ IsSet(state.retrieval_context)
    /\ Get(state.retrieval_context).merged_results # <<>>
    /\ state.needs_clarification
    /\ ~state.is_sufficient

\* a confidence the LLM replied with that float() or the field's bounds reject
BadConfidence(c) == c < 0 \/ c > 100

\* every confidence the state holds
StoredConfidences(s) ==
    (IF IsSet(s.intent) THEN {Get(s.intent).confidence} ELSE {})
    \cup (IF IsSet(s.emotion) THEN {Get(s.emotion).confidence} ELSE {})
    \cup (IF IsSet(s.retrieval_context)
          THEN {Get(s.retrieval_context).retrieval_confidence} ELSE {})
    \cup {s.explanations[i].confidence : i \in 1..Len(s.explanations)}
    \cup {s.private_reasoning[i].confidence : i \in 1..Len(s.private_reasoning)}

SequentialFailoverSkipsUnhealthy ==
    [][\A c \in Callers :
          (/\ strategy = "failover"
           /\ \A d \in Callers \ {c} : calls[d].pc = "idle" /\ calls'[d].pc = "idle")
          => /\ (calls'[c].pc = "awaiting" /\ calls'[c] # calls[c]
                 /\ ~clients'[calls'[c].cur].is_healthy)
                => \A j \in 1..Len(clients') : ~clients'[j].is_healthy
             /\ \A i \in 1..Len(clients) :
                   (~clients[i].is_healthy /\ clients'[i].is_healthy)
                   => /\ calls[c].pc = "awaiting"
                      /\ calls[c].cur = i
                      /\ calls'[c].pc = "returned"]_vars

\* two calls in a row by one caller: the first backend failed in the first
\* call, and the second call went to the second backend only
SequentialFailoverSkipsUnhealthyWitness ==
    /\ strategy = "failover"
    /\ started = 2
    /\ Len(clients) = 2
    /\ \E c \in Callers :
          /\ \A d \in Callers \ {c} : calls[d].pc = "idle"
          /\ calls[c].pc = "returned"
          /\ calls[c].inv = <<2>>
    /\ ~clients[1].is_healthy
    /\ clients[1].error_count > 0
    /\ clients[2].is_healthy
    /\ clients[2].request_count = 2

\* C40: under any interleaving of concurrent execute calls on one registry,
\* once no call is in flight every backend that was invoked is marked healthy
\* exactly when its invocation that completed last returned a response, and no
\* call has invoked a backend twice.
FlagIsLastOutcome ==
    (started > 0 /\ \A c \in Callers : calls[c].pc # "awaiting") =>
        /\ \A i \in 1..Len(clients) :
              IsSet(lastOutcome[i]) => clients[i].is_healthy = Get(lastOutcome[i])
        /\ \A c \in Callers :
              \A j, k \in 1..Len(calls[c].inv) :
                 calls[c].inv[j] = calls[c].inv[k] => j = k

\* two overlapping calls under FAILOVER that both began on the first backend:
\* one invocation of it failed and the other, which completed later, returned
FlagIsLastOutcomeWitness ==
    /\ strategy = "failover"
    /\ started = 2
    /\ Len(clients) = 2
    /\ \E c, d \in Callers :
          /\ calls[c].pc = "returned" /\ calls[c].inv = <<1>>
          /\ calls[d].pc = "returned" /\ calls[d].inv = <<1, 2>>
          /\ calls[d].outs = <<FALSE, TRUE>>
    /\ lastOutcome[1] = Some(TRUE)
    /\ clients[1].is_healthy
    /\ clients[1].error_count > 0

====
